---- MODULE Spec2Model ----
(***************************************************************************)
(* dynaconf/utils/__init__.py: object_merge, Missing and deduplicate.      *)
(*                                                                         *)
(* Python lists and dicts are mutable objects reached through references,  *)
(* so the model keeps an explicit heap: object_merge stores references     *)
(* (new[key] = value) and mutates the object `new` in place.               *)
(***************************************************************************)
EXTENDS Integers, Sequences, FiniteSets, TLC

VARIABLES
    heap,        \* address -> list or dict object
    new,         \* the value passed as `new` to every object_merge call
    layers,      \* the values passed as `old`, one per configuration layer
    origin,      \* the heap before the first object_merge call
    pre,         \* the heap just before the last object_merge call
    calls,       \* the object_merge calls made so far: <<[old, unique], ...>>
    list_object, \* the argument of deduplicate
    dd_result,   \* <<>> before deduplicate returned, <<its result>> after
    m_self,      \* a Missing instance (0 is the module-level `missing`)
    m_other,     \* the value it is compared with
    m_eq,        \* <<>> or <<result of m_self == m_other>>
    m_bool       \* <<>> or <<result of bool(m_self)>>

vars == <<heap, new, layers, origin, pre, calls, list_object, dd_result,
          m_self, m_other, m_eq, m_bool>>

mergeVars == <<heap, new, layers, origin, pre, calls>>
dedupVars == <<list_object, dd_result>>
missingVars == <<m_self, m_other, m_eq, m_bool>>

-----------------------------------------------------------------------------
(* Bounds *)

MaxListLen == 2     \* longest list in an initial layer
MaxCalls == 2       \* object_merge calls in one run
MaxSeqLen == 4      \* longest argument of deduplicate
MaxInstances == 2   \* Missing() instances made besides the module's `missing`

-----------------------------------------------------------------------------
(* Python values.  A value is a scalar or a reference to a heap object.    *)

PyInt(n) == [t |-> "int", v |-> n]
PyStr(n) == [t |-> "str", v |-> n]
PyNone == [t |-> "None", v |-> 0]
MissingInst(i) == [t |-> "Missing", v |-> i]
Ref(a) == [t |-> "ref", v |-> a]

\* the module-level singleton, `missing = Missing()`
missing == MissingInst(0)

IsRef(x) == x.t = "ref"
IsList(h, x) == IsRef(x) /\ h[x.v].kind = "list"
IsDict(h, x) == IsRef(x) /\ h[x.v].kind = "dict"

ListObj(vals) == [kind |-> "list", keys |-> <<>>, vals |-> vals]
DictObj(keys, vals) == [kind |-> "dict", keys |-> keys, vals |-> vals]

\* isinstance(other, Missing)
IsInstanceOfMissing(x) == x.t = "Missing"

\* Missing.__eq__ compared by identity: the mutation `return other is self`
Missing__eq__Identity(self, other) == other = self

\* Missing.__eq__(self, other)
Missing__eq__(self, other) == IsInstanceOfMissing(other)

\* Missing.__bool__(self)
Missing__bool__(self) == FALSE

\* key -> position in a dict object's key sequence (0 when absent)
RECURSIVE KeyIndexFrom(_, _, _)
KeyIndexFrom(keys, k, i) ==
    IF i > Len(keys) THEN 0
    ELSE IF keys[i] = k THEN i
    ELSE KeyIndexFrom(keys, k, i + 1)

KeyIndex(keys, k) == KeyIndexFrom(keys, k, 1)

HasKey(obj, k) == KeyIndex(obj.keys, k) # 0
Get(obj, k) == obj.vals[KeyIndex(obj.keys, k)]

\* x == y as Python evaluates it: Missing.__eq__ decides when either side
\* is a Missing (directly or as the reflected operand), lists compare
\* element by element, dicts key by key, other scalars by type and value.
RECURSIVE PyEq(_, _, _)
PyEq(h, x, y) ==
    IF x.t = "Missing" THEN Missing__eq__(x, y)
    ELSE IF y.t = "Missing" THEN Missing__eq__(y, x)
    ELSE IF IsRef(x) /\ IsRef(y) THEN
        \/ x.v = y.v
        \/ /\ h[x.v].kind = "list" /\ h[y.v].kind = "list"
           /\ Len(h[x.v].vals) = Len(h[y.v].vals)
           /\ \A i \in 1..Len(h[x.v].vals) :
                  PyEq(h, h[x.v].vals[i], h[y.v].vals[i])
        \/ /\ h[x.v].kind = "dict" /\ h[y.v].kind = "dict"
           /\ Len(h[x.v].keys) = Len(h[y.v].keys)
           /\ \A i \in 1..Len(h[x.v].keys) :
                  /\ HasKey(h[y.v], h[x.v].keys[i])
                  /\ PyEq(h, h[x.v].vals[i], Get(h[y.v], h[x.v].keys[i]))
    ELSE x = y

\* item in lst   (lst a sequence of values)
In(h, item, lst) == \E j \in 1..Len(lst) : PyEq(h, item, lst[j])

-----------------------------------------------------------------------------
(* object_merge *)

\* the mutation that walks old from its first item: `for item in old`
NotReversed(s) == s

\* old[::-1]: a reversed copy of the list
Reversed(s) == [i \in 1..Len(s) |-> s[Len(s) + 1 - i]]

\* new.append(item): the mutation that adds old's items at the wrong end
InsertAtEnd(h, lst, item) == [h EXCEPT ![lst.v].vals = Append(@, item)]

\* new.insert(0, item)
Insert0(h, lst, item) == [h EXCEPT ![lst.v].vals = <<item>> \o @]

\* the mutation that ignores `unique` and always inserts
SkipsNever(h, item, lst, unique) == FALSE

\* `if unique and item in new: continue`
Skips(h, item, lst, unique) == unique /\ In(h, item, h[lst.v].vals)

\* for item in old[::-1]: ...      (items is the copy made by old[::-1])
RECURSIVE ListLoop(_, _, _, _, _)
ListLoop(h, items, i, lst, unique) ==
    IF i > Len(items) THEN h
    ELSE ListLoop(IF Skips(h, items[i], lst, unique)
                      THEN h
                      ELSE Insert0(h, lst, items[i]),
                  items, i + 1, lst, unique)

\* new[key] = value, for a key that is not in new: the reference is stored
SetItem(h, d, key, value) ==
    [h EXCEPT ![d.v].keys = Append(@, key), ![d.v].vals = Append(@, value)]

\* the mutation that passes `unique` on: object_merge(value, new[key], unique)
RecursiveUniquePassed(unique) == unique

\* the unique argument of the recursive call object_merge(value, new[key]):
\* not passed, so the default False
RecursiveUnique(unique) == FALSE

\* `if old == new: return`
EqualListsReturn(h, old, lst) == PyEq(h, old, lst)

RECURSIVE object_merge(_, _, _, _)

\* the mutation that drops a key of old that new lacks
DictStepDropsAbsent(h, key, value, d, unique) ==
    IF ~HasKey(h[d.v], key)
        THEN h
        ELSE object_merge(h, value, Get(h[d.v], key), RecursiveUnique(unique))

\* the mutation in which old wins a shape conflict under a shared key
DictStepOldWins(h, key, value, d, unique) ==
    IF ~HasKey(h[d.v], key)
        THEN SetItem(h, d, key, value)
        ELSE IF \/ IsList(h, value) /\ IsList(h, Get(h[d.v], key))
                \/ IsDict(h, value) /\ IsDict(h, Get(h[d.v], key))
            THEN object_merge(h, value, Get(h[d.v], key), RecursiveUnique(unique))
            ELSE [h EXCEPT ![d.v].vals[KeyIndex(h[d.v].keys, key)] = value]

\* the body of `for key, value in old.items()`
DictStep(h, key, value, d, unique) ==
    IF ~HasKey(h[d.v], key)
        THEN SetItem(h, d, key, value)
        ELSE object_merge(h, value, Get(h[d.v], key), RecursiveUnique(unique))

\* for key, value in old.items(): ...   The items are read from the live
\* dict.  (Python raises if old changes size while it is iterated; that
\* needs one dict at two different paths, which layers built apart from
\* each other never have.)
RECURSIVE DictLoop(_, _, _, _, _)
DictLoop(h, old, i, d, unique) ==
    IF i > Len(h[old.v].keys) THEN h
    ELSE DictLoop(DictStep(h, h[old.v].keys[i], h[old.v].vals[i], d, unique),
                  old, i + 1, d, unique)

\* object_merge(old, new, unique): the heap after the call
object_merge(h, old, lst, unique) ==
    IF IsList(h, old) /\ IsList(h, lst) THEN
        IF EqualListsReturn(h, old, lst) THEN h
        ELSE ListLoop(h, Reversed(h[old.v].vals), 1, lst, unique)
    ELSE IF IsDict(h, old) /\ IsDict(h, lst) THEN
        DictLoop(h, old, 1, lst, unique)
    ELSE h

-----------------------------------------------------------------------------
(* deduplicate *)

\* the mutation that compares with the last kept item only
NotInNewLastOnly(h, item, acc) ==
    Len(acc) = 0 \/ ~PyEq(h, item, acc[Len(acc)])

\* `if item not in new`
NotInNew(h, item, acc) == ~In(h, item, acc)

\* the loop of deduplicate, from position i with accumulator acc
RECURSIVE DedupLoop(_, _, _, _)
DedupLoop(h, lst, i, acc) ==
    IF i > Len(lst) THEN acc
    ELSE DedupLoop(h, lst, i + 1,
                   IF NotInNew(h, lst[i], acc) THEN Append(acc, lst[i]) ELSE acc)

\* deduplicate(list_object)
deduplicate(h, lst) == DedupLoop(h, lst, 1, <<>>)

-----------------------------------------------------------------------------
(* The structures handed to object_merge: trees, laid out in the heap.     *)

TInt(n) == [kind |-> "int", keys |-> <<>>, vals |-> <<>>, n |-> n]
TList(vals) == [kind |-> "list", keys |-> <<>>, vals |-> vals, n |-> 0]
TDict(keys, vals) == [kind |-> "dict", keys |-> keys, vals |-> vals, n |-> 0]

Scalars == {TInt(1), TInt(2)}

SeqsUpTo(S, n) == UNION {[1..k -> S] : k \in 0..n}

ListTemplates == {TList(s) : s \in SeqsUpTo(Scalars, MaxListLen)}

DictTemplates ==
    { TDict(<<>>, <<>>),
      TDict(<<"a">>, <<TInt(1)>>),
      TDict(<<"b">>, <<TInt(2)>>),
      TDict(<<"a">>, <<TList(<<TInt(1)>>)>>),
      TDict(<<"a">>, <<TList(<<TInt(2), TInt(1)>>)>>),
      TDict(<<"a", "b">>, <<TList(<<TInt(1), TInt(2)>>), TDict(<<"x">>, <<TInt(1)>>)>>),
      TDict(<<"a", "b">>, <<TList(<<TInt(3)>>), TDict(<<"y">>, <<TInt(2)>>)>>),
      TDict(<<"a">>, <<TDict(<<"x">>, <<TInt(1)>>)>>),
      TDict(<<"a">>, <<TDict(<<"y">>, <<TList(<<TInt(2)>>)>>)>>),
      TDict(<<"a">>, <<TDict(<<"y">>, <<TDict(<<"p">>, <<TInt(1)>>)>>)>>),
      TDict(<<"a">>, <<TDict(<<"x", "y">>, <<TInt(2), TDict(<<"q">>, <<TInt(2)>>)>>)>>) }

NestedListTemplates ==
    { TList(<<TList(<<TInt(1)>>)>>),
      TList(<<TDict(<<"x">>, <<TInt(1)>>), TList(<<TInt(1)>>)>>) }

\* layers that are all lists
ListLayers == ListTemplates \cup NestedListTemplates

\* layers that are mappings, and the other shapes a mapping can meet
MixedLayers ==
    DictTemplates \cup {TInt(1), TList(<<TInt(2)>>), TList(<<TInt(1), TInt(2)>>)}

LayerFamilies == {ListLayers, MixedLayers}

\* lay a tree out in the heap: [h |-> the heap, r |-> the value of its root]
RECURSIVE Alloc(_, _)
RECURSIVE AllocAll(_, _, _, _)
AllocAll(h, trees, i, rs) ==
    IF i > Len(trees) THEN [h |-> h, r |-> rs]
    ELSE LET a == Alloc(h, trees[i])
         IN  AllocAll(a.h, trees, i + 1, Append(rs, a.r))

Alloc(h, t) ==
    IF t.kind = "int" THEN [h |-> h, r |-> PyInt(t.n)]
    ELSE LET a == AllocAll(h, t.vals, 1, <<>>)
         IN  [h |-> Append(a.h, [kind |-> t.kind, keys |-> t.keys, vals |-> a.r]),
              r |-> Ref(Len(a.h) + 1)]

\* the tree a value stands for in heap h
RECURSIVE Tree(_, _)
Tree(h, x) ==
    IF ~IsRef(x) THEN TInt(x.v)
    ELSE [kind |-> h[x.v].kind, keys |-> h[x.v].keys,
          vals |-> [i \in 1..Len(h[x.v].vals) |-> Tree(h, h[x.v].vals[i])],
          n |-> 0]

-----------------------------------------------------------------------------
(* The merge machine: a settings container merges layers into `new`.       *)

NoDedup == list_object = PyNone /\ dd_result = <<>>
NoMissing == m_self = missing /\ m_other = PyNone /\ m_eq = <<>> /\ m_bool = <<>>

Init ==
    /\ \E F \in LayerFamilies : \E tn \in F, t1 \in F, t2 \in F :
         LET a == Alloc(<<>>, tn)
             b == Alloc(a.h, t1)
             c == Alloc(b.h, t2)
         IN  /\ heap = c.h
             /\ new = a.r
             /\ layers = <<b.r, c.r>>
    /\ origin = heap
    /\ pre = heap
    /\ calls = <<>>
    /\ NoDedup
    /\ NoMissing

\* object_merge(layers[i], new, unique)
Merge(i, unique) ==
    /\ Len(calls) < MaxCalls
    /\ pre' = heap
    /\ heap' = object_merge(heap, layers[i], new, unique)
    /\ calls' = Append(calls, [old |-> i, unique |-> unique])
    /\ UNCHANGED <<new, layers, origin, dedupVars, missingVars>>

Next == \E i \in 1..Len(layers), unique \in BOOLEAN : Merge(i, unique)

Spec == Init /\ [][Next]_vars

-----------------------------------------------------------------------------
(* deduplicate applied to one list.  Two of the possible elements are      *)
(* distinct list objects with equal contents (unhashable, equal by ==).    *)

DedupHeap == <<ListObj(<<PyInt(1)>>), ListObj(<<PyInt(1)>>)>>

DedupElems == {PyInt(1), PyInt(2), missing, MissingInst(1), Ref(1), Ref(2)}

InitDedup ==
    /\ \E s \in SeqsUpTo(DedupElems, MaxSeqLen) :
         /\ heap = Append(DedupHeap, ListObj(s))
         /\ list_object = Ref(Len(heap))
    /\ dd_result = <<>>
    /\ new = PyNone
    /\ layers = <<>>
    /\ origin = heap
    /\ pre = heap
    /\ calls = <<>>
    /\ NoMissing

\* deduplicate(list_object): reads the list, returns a new one
Deduplicate ==
    /\ dd_result = <<>>
    /\ dd_result' = <<deduplicate(heap, heap[list_object.v].vals)>>
    /\ UNCHANGED <<list_object, mergeVars, missingVars>>

NextDedup == Deduplicate

SpecDedup == InitDedup /\ [][NextDedup]_vars

-----------------------------------------------------------------------------
(* The sentinel compared with, and tested as, a value.                     *)

MissingHeap == <<ListObj(<<>>)>>

PyValues ==
    {MissingInst(i) : i \in 0..MaxInstances}
        \cup {PyNone, Ref(1)}
        \cup {PyInt(n) : n \in -1..1}
        \cup {PyStr(n) : n \in 0..1}

InitMissing ==
    /\ m_self \in {MissingInst(i) : i \in 0..MaxInstances}
    /\ m_other \in PyValues
    /\ m_eq = <<>>
    /\ m_bool = <<>>
    /\ heap = MissingHeap
    /\ new = PyNone
    /\ layers = <<>>
    /\ origin = heap
    /\ pre = heap
    /\ calls = <<>>
    /\ NoDedup

\* m_self == m_other
EqCall ==
    /\ m_eq = <<>>
    /\ m_eq' = <<PyEq(heap, m_self, m_other)>>
    /\ UNCHANGED <<m_self, m_other, m_bool, mergeVars, dedupVars>>

\* bool(m_self)
BoolCall ==
    /\ m_bool = <<>>
    /\ m_bool' = <<Missing__bool__(m_self)>>
    /\ UNCHANGED <<m_self, m_other, m_eq, mergeVars, dedupVars>>

NextMissing == EqCall \/ BoolCall

SpecMissing == InitMissing /\ [][NextMissing]_vars

-----------------------------------------------------------------------------
(* What the properties below speak of: the last call and its arguments.    *)

Called == Len(calls) > 0
last == calls[Len(calls)]
lastOld == layers[last.old]

ListCall == Called /\ IsList(pre, lastOld) /\ IsList(pre, new)
DictCall == Called /\ IsDict(pre, lastOld) /\ IsDict(pre, new)

\* the contents of a list before and after the last call, as trees
OldItems == Tree(pre, lastOld).vals
NewItemsBefore == Tree(pre, new).vals
NewItemsAfter == Tree(heap, new).vals

Keys(obj) == {obj.keys[i] : i \in 1..Len(obj.keys)}

\* how many items of the sequence s equal x
RECURSIVE CountFrom(_, _, _, _)
CountFrom(h, x, s, i) ==
    IF i > Len(s) THEN 0
    ELSE (IF PyEq(h, x, s[i]) THEN 1 ELSE 0) + CountFrom(h, x, s, i + 1)

Count(h, x, s) == CountFrom(h, x, s, 1)

\* the items of s at the positions that satisfy Keep, in order
RECURSIVE Pick(_, _, _)
Pick(s, Keep(_), i) ==
    IF i > Len(s) THEN <<>>
    ELSE (IF Keep(i) THEN <<s[i]>> ELSE <<>>) \o Pick(s, Keep, i + 1)

-----------------------------------------------------------------------------
(* C1 *)

\* C1 as stated: after object_merge(A, B) with unique=False, for all lists
\* A and B (A equal to B included), len(B) = len(A) + len(B_original) and
\* the last len(B_original) elements of B are B_original in order.
C1_AsStated ==
    (ListCall /\ ~last.unique) =>
        /\ Len(NewItemsAfter) = Len(OldItems) + Len(NewItemsBefore)
        /\ SubSeq(NewItemsAfter, Len(OldItems) + 1, Len(NewItemsAfter)) = NewItemsBefore

\* C1 amended: the same for lists A and B that are not equal; when A
\* equals B the call leaves B as it was.
C1_Amended ==
    (ListCall /\ ~last.unique) =>
        IF PyEq(pre, lastOld, new)
            THEN NewItemsAfter = NewItemsBefore
            ELSE /\ Len(NewItemsAfter) = Len(OldItems) + Len(NewItemsBefore)
                 /\ SubSeq(NewItemsAfter, Len(OldItems) + 1, Len(NewItemsAfter))
                        = NewItemsBefore

\* C1 witness: a unique=False merge of two different non-empty lists that
\* have an element in common
C1_Witness ==
    /\ ListCall /\ ~last.unique
    /\ ~PyEq(pre, lastOld, new)
    /\ Len(OldItems) > 0 /\ Len(NewItemsBefore) > 0
    /\ \E i \in 1..Len(OldItems) : In(pre, pre[lastOld.v].vals[i], pre[new.v].vals)
    /\ Len(NewItemsAfter) = Len(OldItems) + Len(NewItemsBefore)

-----------------------------------------------------------------------------
(* C2 *)

\* o and n are dicts of the heap before the call: n afterwards has every
\* key of both, a key only in o holds o's value, a key only in n kept its
\* value, and so on inside every pair of dicts under a shared key
RECURSIVE KeysMerged(_, _, _, _)
KeysMerged(hpre, hpost, o, n) ==
    /\ Keys(hpost[n.v]) = Keys(hpre[o.v]) \cup Keys(hpre[n.v])
    /\ \A k \in Keys(hpre[o.v]) \ Keys(hpre[n.v]) :
          /\ Get(hpost[n.v], k) = Get(hpre[o.v], k)
          /\ Tree(hpost, Get(hpost[n.v], k)) = Tree(hpre, Get(hpre[o.v], k))
    /\ \A k \in Keys(hpre[n.v]) \ Keys(hpre[o.v]) :
          /\ Get(hpost[n.v], k) = Get(hpre[n.v], k)
          /\ Tree(hpost, Get(hpost[n.v], k)) = Tree(hpre, Get(hpre[n.v], k))
    /\ \A k \in Keys(hpre[o.v]) \cap Keys(hpre[n.v]) :
          /\ Get(hpost[n.v], k) = Get(hpre[n.v], k)
          /\ (IsDict(hpre, Get(hpre[o.v], k)) /\ IsDict(hpre, Get(hpre[n.v], k)))
                => KeysMerged(hpre, hpost, Get(hpre[o.v], k), Get(hpre[n.v], k))

\* C2: after object_merge(old, new) on mappings, new has every key of old
\* and every key it had; a key only in old maps to old's value, a key only
\* in new keeps its value, and the same holds in every pair of mappings
\* under a shared key at any depth.
C2_KeysMerged == DictCall => KeysMerged(pre, heap, lastOld, new)

\* C2 witness: a merge of mappings with a key only in old, and a shared key
\* whose values are mappings, old's with a key that new's lacked
C2_Witness ==
    /\ DictCall
    /\ \E k \in Keys(pre[lastOld.v]) \cap Keys(pre[new.v]) :
          /\ IsDict(pre, Get(pre[lastOld.v], k))
          /\ IsDict(pre, Get(pre[new.v], k))
          /\ Keys(pre[Get(pre[lastOld.v], k).v]) \ Keys(pre[Get(pre[new.v], k).v]) # {}
          /\ Keys(heap[Get(heap[new.v], k).v]) # Keys(pre[Get(pre[new.v], k).v])

-----------------------------------------------------------------------------
(* C3 *)

SameShape(h, o, n) ==
    \/ IsList(h, o) /\ IsList(h, n)
    \/ IsDict(h, o) /\ IsDict(h, n)

\* wherever the merge of o into n meets two values that are not both lists
\* and not both dicts, the value on n's side is as it was
RECURSIVE ConflictsKept(_, _, _, _)
ConflictsKept(hpre, hpost, o, n) ==
    IF ~SameShape(hpre, o, n) THEN Tree(hpost, n) = Tree(hpre, n)
    ELSE IsDict(hpre, o) =>
           \A k \in Keys(hpre[o.v]) \cap Keys(hpre[n.v]) :
              /\ Get(hpost[n.v], k) = Get(hpre[n.v], k)
              /\ ConflictsKept(hpre, hpost, Get(hpre[o.v], k), Get(hpre[n.v], k))

\* C3: new wins on any shape conflict, at the top level or under a shared
\* key at any depth: new's value at that path is as it was before the call.
C3_NewWins == Called => ConflictsKept(pre, heap, lastOld, new)

\* some pair of values met below a shared key of o and n conflicts in shape
RECURSIVE NestedConflict(_, _, _)
NestedConflict(h, o, n) ==
    /\ IsDict(h, o) /\ IsDict(h, n)
    /\ \E k \in Keys(h[o.v]) \cap Keys(h[n.v]) :
          \/ /\ ~SameShape(h, Get(h[o.v], k), Get(h[n.v], k))
             /\ IsRef(Get(h[o.v], k)) \/ IsRef(Get(h[n.v], k))
          \/ NestedConflict(h, Get(h[o.v], k), Get(h[n.v], k))

\* C3 witness: a merge of mappings that changed new and met, two levels
\* down, a container on one side and a different shape on the other
C3_Witness ==
    /\ DictCall
    /\ Tree(heap, new) # Tree(pre, new)
    /\ \E k \in Keys(pre[lastOld.v]) \cap Keys(pre[new.v]) :
          NestedConflict(pre, Get(pre[lastOld.v], k), Get(pre[new.v], k))

-----------------------------------------------------------------------------
(* C4 *)

OldVals == pre[lastOld.v].vals
NewValsBefore == pre[new.v].vals
NewValsAfter == heap[new.v].vals

\* C4 as stated: after object_merge(A, B, unique=True) every element that
\* was in B_original occurs at most once in B.
C4_AsStated ==
    (ListCall /\ last.unique) =>
        \A i \in 1..Len(NewValsBefore) :
            Count(heap, NewValsBefore[i], NewValsAfter) <= 1

\* C4 amended: after object_merge(A, B, unique=True) every element that
\* was in B_original occurs in B as often as it occurred in B_original: the
\* merge adds no further occurrence of it.
C4_Amended ==
    (ListCall /\ last.unique) =>
        \A i \in 1..Len(NewValsBefore) :
            Count(heap, NewValsBefore[i], NewValsAfter)
                = Count(pre, NewValsBefore[i], NewValsBefore)

\* C4 witness: a unique=True merge that added an element of A to B and
\* skipped another one because B had it
C4_Witness ==
    /\ ListCall /\ last.unique
    /\ Len(NewValsAfter) > Len(NewValsBefore)
    /\ \E i \in 1..Len(OldVals) : In(pre, OldVals[i], NewValsBefore)

-----------------------------------------------------------------------------
(* C5 *)

AddedFromOld(i) ==
    /\ ~In(pre, OldVals[i], NewValsBefore)
    /\ \A j \in (i + 1)..Len(OldVals) : ~PyEq(pre, OldVals[i], OldVals[j])

NoDuplicates(h, s) ==
    \A i, j \in 1..Len(s) : i # j => ~PyEq(h, s[i], s[j])

C5_WitnessDisjoint ==
    /\ ListCall /\ last.unique
    /\ Len(OldVals) > 1 /\ Len(NewValsBefore) > 0
    /\ NoDuplicates(pre, OldVals) /\ NoDuplicates(pre, NewValsBefore)
    /\ \A i \in 1..Len(OldVals) : ~In(pre, OldVals[i], NewValsBefore)
    /\ NewValsAfter = OldVals \o NewValsBefore

-----------------------------------------------------------------------------
(* C7 *)

UsedLayers == {calls[i].old : i \in 1..Len(calls)}

\* C7 as stated: each object_merge call leaves unchanged the structure
\* passed as old to it and every structure, nested values included, that
\* was passed as old to an earlier call.
C7_OldsUnchanged ==
    \A i \in UsedLayers : Tree(heap, layers[i]) = Tree(pre, layers[i])

\* the half of C7 that the code keeps: the old of the call itself
C7_CurrentOldUnchanged ==
    Called => Tree(heap, lastOld) = Tree(pre, lastOld)

-----------------------------------------------------------------------------
(* C9 *)

\* under every key that dicts o and n share: two lists that differ leave
\* n's list as o's list followed by what n's list was; two dicts likewise
RECURSIVE NestedListsPrepended(_, _, _, _)
NestedListsPrepended(hpre, hpost, o, n) ==
    \A k \in Keys(hpre[o.v]) \cap Keys(hpre[n.v]) :
        LET ov == Get(hpre[o.v], k)
            nv == Get(hpre[n.v], k)
        IN  /\ (IsList(hpre, ov) /\ IsList(hpre, nv) /\ ~PyEq(hpre, ov, nv))
                  => hpost[nv.v].vals = hpre[ov.v].vals \o hpre[nv.v].vals
            /\ (IsDict(hpre, ov) /\ IsDict(hpre, nv))
                  => NestedListsPrepended(hpre, hpost, ov, nv)

-----------------------------------------------------------------------------
(* C10 *)

\* x is a scalar, or a mapping whose values at every depth are such
RECURSIVE OnlyMappingsAndScalars(_, _)
OnlyMappingsAndScalars(h, x) ==
    IF ~IsRef(x) THEN TRUE
    ELSE /\ h[x.v].kind = "dict"
         /\ \A i \in 1..Len(h[x.v].vals) : OnlyMappingsAndScalars(h, h[x.v].vals[i])

Repeated ==
    /\ Len(calls) >= 2
    /\ calls[Len(calls)] = calls[Len(calls) - 1]

\* C10: a second object_merge(old, new) call with the same arguments leaves
\* new as the first call left it, for lists with unique=True and for
\* mappings whose nested values are only mappings and scalars.
C10_ReapplyNoOp ==
    ( /\ Repeated
      /\ \/ ListCall /\ last.unique
         \/ /\ DictCall
            /\ OnlyMappingsAndScalars(pre, lastOld)
            /\ OnlyMappingsAndScalars(pre, new) )
    => Tree(heap, new) = Tree(pre, new)

\* C10 witness: the list case, the first call having changed new
C10_Witness ==
    /\ Len(calls) = 2 /\ Repeated
    /\ ListCall /\ last.unique
    /\ Tree(pre, new) # Tree(origin, new)
    /\ Tree(heap, new) = Tree(pre, new)

\* C10 witness: the mapping case, the first call having changed new two
\* levels down
C10_WitnessMapping ==
    /\ Len(calls) = 2 /\ Repeated
    /\ DictCall
    /\ OnlyMappingsAndScalars(pre, lastOld) /\ OnlyMappingsAndScalars(pre, new)
    /\ \E k \in Keys(origin[new.v]) :
          /\ IsRef(Get(origin[new.v], k))
          /\ Tree(pre, Get(pre[new.v], k)) # Tree(origin, Get(origin[new.v], k))
    /\ Tree(heap, new) = Tree(pre, new)

-----------------------------------------------------------------------------
(* C6 *)

DedupIn == heap[list_object.v].vals
DedupOut == dd_result[1]

\* position i of the input holds the first occurrence of its element
FirstOccurrence(i) ==
    \A j \in 1..(i - 1) : ~PyEq(heap, DedupIn[j], DedupIn[i])

\* C6: deduplicate(s) returns a new sequence holding exactly the distinct
\* elements of s (by equality), each once, in order of first occurrence,
\* no longer than s (empty for empty s), and leaves s unmodified.
C6_Deduplicate ==
    dd_result # <<>> =>
        /\ \A i \in 1..Len(DedupIn) : In(heap, DedupIn[i], DedupOut)
        /\ \A i \in 1..Len(DedupOut) : In(heap, DedupOut[i], DedupIn)
        /\ NoDuplicates(heap, DedupOut)
        /\ DedupOut = Pick(DedupIn, FirstOccurrence, 1)
        /\ Len(DedupOut) <= Len(DedupIn)
        /\ (DedupIn = <<>> => DedupOut = <<>>)
        /\ heap = origin

\* C6 witness: deduplicate returned for an input where equal elements,
\* among them two distinct list objects, stand apart from each other
C6_Witness ==
    /\ dd_result # <<>>
    /\ Len(DedupIn) = 4 /\ Len(DedupOut) = 2
    /\ DedupIn[1] = Ref(2) /\ DedupIn[3] = Ref(1)
    /\ ~PyEq(heap, DedupIn[1], DedupIn[2])
    /\ DedupOut[1] = Ref(2)

-----------------------------------------------------------------------------
(* C8 *)

\* C8: bool(missing) is False, and missing == y is True exactly when y is
\* an instance of Missing (an independently constructed one included, None
\* not).
C8_Sentinel ==
    /\ m_bool # <<>> => m_bool[1] = FALSE
    /\ m_eq # <<>> => (m_eq[1] <=> m_other.t = "Missing")

\* C8 witness: the module's `missing` compared equal to another instance
\* and tested false
C8_Witness ==
    /\ m_self = missing /\ m_other = MissingInst(1)
    /\ m_eq = <<TRUE>> /\ m_bool = <<FALSE>>

\* C8 witness: `missing == None` came out False
C8_WitnessNone ==
    /\ m_self = missing /\ m_other = PyNone /\ m_eq = <<FALSE>>

====
